---- MODULE Spec2Model ----
(***************************************************************************)
(* Model of the leech_detector plugin of Nicotine+                         *)
(* (pynicotine/plugins/leech_detector/__init__.py).                        *)
(*                                                                         *)
(* The plugin keeps one table, probed_downloaders, and reacts to two host  *)
(* callbacks: upload_queued_notification and user_stats_notification, the  *)
(* latter delegating to check_downloader.  The collaborators it calls      *)
(* (userbrowse, network_filter, send_private, log) are recorded as the     *)
(* sequence of calls made by the last handler, plus per-user call counts.  *)
(*                                                                         *)
(* The module also models two pieces of pynicotine/gtkgui/utils.py: the    *)
(* tab notifications of IconNotebook (highlight image and text colour of   *)
(* the tab labels) and the command alias table of add_alias / unalias.     *)
(***************************************************************************)
EXTENDS Integers, Sequences, FiniteSets, TLC

VARIABLES
    settings,            \* self.settings
    buddies,             \* self.core.buddies.users
    probed_downloaders,  \* self.probed_downloaders (a dict: user -> "downloader" | "OK")
    ev,                  \* the last host callback and its arguments
    calls,               \* collaborator calls made by the last callback, in order
    raised,              \* exception the last callback ended with ("" when it returned)
    nbrowse,             \* per user: number of core.userbrowse.browse_user calls so far
    nban,                \* per user: number of core.network_filter.ban_user calls so far
    nmsg,                \* per user: number of send_private calls so far
    requested,           \* users for which upload_queued_notification was called
    locals,              \* locals of the last callback: locked_percent (a sequence, empty
                         \* while unassigned) and whether calculate_percentage was called
    notebook,            \* the Gtk.Notebook of an IconNotebook: its pages and current page
    tab_labels,          \* per page: the ImageLabel that is the page's tab label
    menu_labels,         \* per page: the ImageLabel that is the page's menu label
    notification_tab_colors,  \* config.sections["notifications"]["notification_tab_colors"]
    command_aliases,     \* config.sections["server"]["command_aliases"]
    gui_ev               \* the last operation of gtkgui/utils.py, its argument and result

pluginvars == <<settings, buddies, probed_downloaders, ev, calls, raised,
                nbrowse, nban, nmsg, requested, locals>>

guivars == <<notebook, tab_labels, menu_labels, notification_tab_colors,
             command_aliases, gui_ev>>

vars == <<settings, buddies, probed_downloaders, ev, calls, raised,
          nbrowse, nban, nmsg, requested, locals,
          notebook, tab_labels, menu_labels, notification_tab_colors,
          command_aliases, gui_ev>>

(***************************************************************************)
(* Bounds of the model                                                     *)
(***************************************************************************)
\* largest file count / folder count of an enumerated statistics snapshot
MaxCount == 2
\* largest minimum-files / minimum-folders threshold of an enumerated configuration
MaxNum == 2
\* a session stops feeding statistics for a user once it was banned or messaged this often
MaxRepeat == 2

Users == {"u1", "u2"}

(***************************************************************************)
(* Arithmetic helpers                                                      *)
(***************************************************************************)
MB == 1048576
GB == 1073741824

\* Python's round(n / d): the quotient rounded to the nearest integer, ties to even
RoundDiv(n, d) ==
    LET nn == IF d < 0 THEN -n ELSE n
        dd == IF d < 0 THEN -d ELSE d
        q  == nn \div dd
        r  == nn % dd
    IN  IF r < dd - r THEN q
        ELSE IF r > dd - r THEN q + 1
        ELSE IF q % 2 = 0 THEN q ELSE q + 1

convert_bytes_to_megs(bytes_value) == RoundDiv(bytes_value, MB)

convert_bytes_to_gigs(bytes_value) == RoundDiv(bytes_value, GB)

calculate_percentage(part, whole) == RoundDiv(part * 100, whole)

\* d[k] = v on a Python dict
DictSet(d, k, v) == [x \in DOMAIN d \cup {k} |-> IF x = k THEN v ELSE d[x]]

\* d.get(k), with "absent" for a missing key
Entry(d, k) == IF k \in DOMAIN d THEN d[k] ELSE "absent"

(***************************************************************************)
(* Collaborator calls                                                      *)
(***************************************************************************)
Call(op, user, arg) == [op |-> op, user |-> user, arg |-> arg]

Log(user, text) == Call("log", user, text)

\* number of calls of collaborator op for user in a call sequence
Count(cs, op, user) ==
    Cardinality({i \in 1..Len(cs) : cs[i].op = op /\ cs[i].user = user})

(***************************************************************************)
(* Settings                                                                *)
(***************************************************************************)
Rules == {"no_files", "all_privates", "empty_folders", "num_files",
          "num_folders", "percent_threshold", "share_size"}

\* the texts loaded_notification puts into empty message settings
DefaultMessage(rule) ==
    CASE rule = "no_files" -> "You need shared files to download from me"
      [] rule = "all_privates" -> "You cannot download from me when your files are all private"
      [] rule = "empty_folders" -> "You cannot download from me when your shared folders are empty"
      [] rule = "num_files" -> "Please consider adding more shared files"
      [] rule = "num_folders" -> "Please consider having more shared folders"
      [] rule = "percent_threshold" -> "You have too many locked/private folders"
      [] rule = "share_size" -> "You are not sharing enough media"

\* self.settings as __init__ leaves it
DefaultSettings ==
    [ open_private_chat |-> FALSE,
      no_files_ban |-> TRUE, no_files_pm |-> TRUE, no_files_message |-> "",
      all_privates_ban |-> TRUE, all_privates_pm |-> TRUE, all_privates_message |-> "",
      empty_folders_ban |-> TRUE, empty_folders_pm |-> TRUE, empty_folders_message |-> "",
      num_files |-> 10,
      num_files_ban |-> FALSE, num_files_pm |-> FALSE, num_files_message |-> "",
      num_folders |-> 10,
      num_folders_ban |-> FALSE, num_folders_pm |-> FALSE, num_folders_message |-> "",
      percent_threshold |-> 1,
      percent_threshold_ban |-> FALSE, percent_threshold_pm |-> FALSE,
      percent_threshold_message |-> "",
      share_size |-> 10, share_size_unit |-> "MB",
      share_size_ban |-> FALSE, share_size_pm |-> FALSE, share_size_message |-> "" ]

\* the bounds self.metasettings declares for the numeric settings
Metasettings ==
    [ num_files |-> [minimum |-> 0],
      num_folders |-> [minimum |-> 0],
      percent_threshold |-> [minimum |-> 1, maximum |-> 99],
      share_size |-> [minimum |-> 0, maximum |-> 1000] ]

\* self.settings[rule + "_ban"], self.settings[rule + "_pm"], self.settings[rule + "_message"]
BanOf(s, rule) ==
    CASE rule = "no_files" -> s.no_files_ban
      [] rule = "all_privates" -> s.all_privates_ban
      [] rule = "empty_folders" -> s.empty_folders_ban
      [] rule = "num_files" -> s.num_files_ban
      [] rule = "num_folders" -> s.num_folders_ban
      [] rule = "percent_threshold" -> s.percent_threshold_ban
      [] rule = "share_size" -> s.share_size_ban

PmOf(s, rule) ==
    CASE rule = "no_files" -> s.no_files_pm
      [] rule = "all_privates" -> s.all_privates_pm
      [] rule = "empty_folders" -> s.empty_folders_pm
      [] rule = "num_files" -> s.num_files_pm
      [] rule = "num_folders" -> s.num_folders_pm
      [] rule = "percent_threshold" -> s.percent_threshold_pm
      [] rule = "share_size" -> s.share_size_pm

MessageOf(s, rule) ==
    CASE rule = "no_files" -> s.no_files_message
      [] rule = "all_privates" -> s.all_privates_message
      [] rule = "empty_folders" -> s.empty_folders_message
      [] rule = "num_files" -> s.num_files_message
      [] rule = "num_folders" -> s.num_folders_message
      [] rule = "percent_threshold" -> s.percent_threshold_message
      [] rule = "share_size" -> s.share_size_message

\* A configuration as the host's preferences dialog can leave it.  One rule d has
\* the toggles (b, p) and a template that is set iff m; every other rule has the
\* opposite toggles and a template that is set iff ~m.
Configured(d, b, p, m, nfiles, nfolders, percent, size, unit) ==
    LET B(r) == IF r = d THEN b ELSE ~b
        P(r) == IF r = d THEN p ELSE ~p
        M(r) == IF (r = d) = m THEN DefaultMessage(r) ELSE ""
    IN  [ open_private_chat |-> FALSE,
          no_files_ban |-> B("no_files"), no_files_pm |-> P("no_files"),
          no_files_message |-> M("no_files"),
          all_privates_ban |-> B("all_privates"), all_privates_pm |-> P("all_privates"),
          all_privates_message |-> M("all_privates"),
          empty_folders_ban |-> B("empty_folders"), empty_folders_pm |-> P("empty_folders"),
          empty_folders_message |-> M("empty_folders"),
          num_files |-> nfiles,
          num_files_ban |-> B("num_files"), num_files_pm |-> P("num_files"),
          num_files_message |-> M("num_files"),
          num_folders |-> nfolders,
          num_folders_ban |-> B("num_folders"), num_folders_pm |-> P("num_folders"),
          num_folders_message |-> M("num_folders"),
          percent_threshold |-> percent,
          percent_threshold_ban |-> B("percent_threshold"),
          percent_threshold_pm |-> P("percent_threshold"),
          percent_threshold_message |-> M("percent_threshold"),
          share_size |-> size, share_size_unit |-> unit,
          share_size_ban |-> B("share_size"), share_size_pm |-> P("share_size"),
          share_size_message |-> M("share_size") ]

(***************************************************************************)
(* check_downloader                                                        *)
(***************************************************************************)
ld_ban_user(user) ==
    << Call("ban_user", user, ""), Log(user, "User %s has been banned") >>

ld_message_user(user, message) ==
    << Call("send_private", user, message), Log(user, "Message sent to %s was %s") >>

\* a variant that sends the message without testing for an empty template
RuleActionSendsEmpty(user, ban, pm, message, warning) ==
    (IF ban = TRUE THEN ld_ban_user(user) ELSE << >>)
    \o (IF pm = TRUE
        THEN ld_message_user(user, "[Auto-Message] " \o message)
        ELSE << >>)

\* a variant that messages only when it does not ban (elif instead of if)
RuleActionElif(user, ban, pm, message, warning) ==
    IF ban = TRUE THEN ld_ban_user(user)
    ELSE IF pm = TRUE
         THEN IF message = ""
              THEN << Log(user, warning) >>
              ELSE ld_message_user(user, "[Auto-Message] " \o message)
         ELSE << >>

\* a variant that sends the message before it bans
RuleActionMessageFirst(user, ban, pm, message, warning) ==
    (IF pm = TRUE
     THEN IF message = ""
          THEN << Log(user, warning) >>
          ELSE ld_message_user(user, "[Auto-Message] " \o message)
     ELSE << >>)
    \o (IF ban = TRUE THEN ld_ban_user(user) ELSE << >>)

\* The ban / message block every rule branch of check_downloader repeats:
\*   if settings[..._ban] is True: ld_ban_user(user)
\*   if settings[..._pm] is True:
\*       if not settings[..._message]: log(warning)
\*       else: ld_message_user(user, "[Auto-Message] " + settings[..._message])
RuleAction(user, ban, pm, message, warning) ==
    (IF ban = TRUE THEN ld_ban_user(user) ELSE << >>)
    \o (IF pm = TRUE
        THEN IF message = ""
             THEN << Log(user, warning) >>
             ELSE ld_message_user(user, "[Auto-Message] " \o message)
        ELSE << >>)

\* the line each rule branch of check_downloader logs first
BranchLog(rule) ==
    CASE rule = "no_files" -> "User %s shares no files or folders."
      [] rule = "all_privates" -> "User %s has shares files but all of their folders are private."
      [] rule = "empty_folders" -> "User %s shares no files, only empty folders."
      [] rule = "num_files" -> "User %s shares %s files but the plugin requires %s"
      [] rule = "num_folders" -> "User %s has %s folders but the plugin requires %s"
      [] rule = "percent_threshold" -> "User %s has %s%% of folders locked, plugin requires less than %s"
      [] rule = "share_size" -> "User %s shares %s but the plugin requires %s"

\* the warning each rule branch logs when its template is empty
WarningLog(rule) ==
    CASE rule = "no_files" -> "[NO-FILES] There is no message configured in plugin"
      [] rule = "all_privates" -> "[ALL-PRIVATES] - There is no message configured in plugin"
      [] rule = "empty_folders" -> "[ALL-PRIVATES] - There is no message configured in plugin"
      [] rule = "num_files" -> "[FILE-COUNT] - There is no message configured in plugin"
      [] rule = "num_folders" -> "[FOLDER-COUNT] - There is no message configured in plugin"
      [] rule = "percent_threshold" -> "[LOCKED-PERCENT] - There is no message configured in plugin"
      [] rule = "share_size" -> "[SHARE-SIZE] - There is no message configured in plugin"

NoFilesBranch(user) ==
    << Log(user, BranchLog("no_files")), Call("remove_user", user, "") >>
    \o RuleAction(user, settings.no_files_ban, settings.no_files_pm,
                  settings.no_files_message,
                  WarningLog("no_files"))

\* a variant that closes the browse tab only when it bans
AllPrivatesBranchClosesOnBan(user) ==
    << Log(user, BranchLog("all_privates")) >>
    \o (IF settings.all_privates_ban = TRUE
        THEN << Call("remove_user", user, "") >> ELSE << >>)
    \o RuleAction(user, settings.all_privates_ban, settings.all_privates_pm,
                  settings.all_privates_message,
                  WarningLog("all_privates"))

AllPrivatesBranch(user) ==
    << Log(user, BranchLog("all_privates")),
       Call("remove_user", user, "") >>
    \o RuleAction(user, settings.all_privates_ban, settings.all_privates_pm,
                  settings.all_privates_message,
                  WarningLog("all_privates"))

\* a variant that sends the template of the branch it was copied from
EmptyFoldersBranchCopied(user) ==
    << Log(user, BranchLog("empty_folders")),
       Call("remove_user", user, "") >>
    \o RuleAction(user, settings.empty_folders_ban, settings.empty_folders_pm,
                  settings.all_privates_message,
                  WarningLog("empty_folders"))

EmptyFoldersBranch(user) ==
    << Log(user, BranchLog("empty_folders")),
       Call("remove_user", user, "") >>
    \o RuleAction(user, settings.empty_folders_ban, settings.empty_folders_pm,
                  settings.empty_folders_message,
                  WarningLog("empty_folders"))

NumFilesBranch(user) ==
    << Log(user, BranchLog("num_files")) >>
    \o RuleAction(user, settings.num_files_ban, settings.num_files_pm,
                  settings.num_files_message,
                  WarningLog("num_files"))

\* a variant that reads the ban toggle of the branch it was copied from
NumFoldersBranchCopied(user) ==
    << Log(user, BranchLog("num_folders")) >>
    \o RuleAction(user, settings.num_files_ban, settings.num_folders_pm,
                  settings.num_folders_message,
                  WarningLog("num_folders"))

NumFoldersBranch(user) ==
    << Log(user, BranchLog("num_folders")) >>
    \o RuleAction(user, settings.num_folders_ban, settings.num_folders_pm,
                  settings.num_folders_message,
                  WarningLog("num_folders"))

PercentThresholdBranch(user) ==
    << Log(user, BranchLog("percent_threshold")) >>
    \o RuleAction(user, settings.percent_threshold_ban, settings.percent_threshold_pm,
                  settings.percent_threshold_message,
                  WarningLog("percent_threshold"))

ShareSizeBranch(user) ==
    << Log(user, BranchLog("share_size")) >>
    \o RuleAction(user, settings.share_size_ban, settings.share_size_pm,
                  settings.share_size_message,
                  WarningLog("share_size"))

\* converted_share: total_shared in the unit of settings["share_size_unit"]
ConvertedShare(total_shared) ==
    IF settings.share_size_unit = "MB" THEN convert_bytes_to_megs(total_shared)
    ELSE IF settings.share_size_unit = "GB" THEN convert_bytes_to_gigs(total_shared)
    ELSE 0

\* the "check stats" condition under which the user is marked OK
StatsAreGood(files, folders, locked_percent, converted_share) ==
    /\ files >= settings.num_files
    /\ folders >= settings.num_folders
    /\ locked_percent < settings.percent_threshold
    /\ converted_share > settings.share_size

\* check_downloader: the table it leaves and the calls it makes
CheckDownloader(user, files, folders, private_folders, locked_percent, total_shared) ==
    LET converted_share == ConvertedShare(total_shared)
        Keep(cs) == [table |-> probed_downloaders, calls |-> cs]
    IN  IF StatsAreGood(files, folders, locked_percent, converted_share)
        THEN [table |-> DictSet(probed_downloaders, user, "OK"),
              calls |-> << Log(user, IF user \in buddies THEN "Buddy %s is OK."
                                                          ELSE "User %s is OK.") >>]
        ELSE IF files = 0 /\ folders = 0 THEN Keep(NoFilesBranch(user))
        ELSE IF files > 0 /\ folders = private_folders THEN Keep(AllPrivatesBranch(user))
        ELSE IF files = 0 /\ folders > 0 THEN Keep(EmptyFoldersBranch(user))
        ELSE IF files <= settings.num_files THEN Keep(NumFilesBranch(user))
        ELSE IF folders < settings.num_folders THEN Keep(NumFoldersBranch(user))
        ELSE IF locked_percent > settings.percent_threshold
             THEN Keep(PercentThresholdBranch(user))
        ELSE IF converted_share < settings.share_size THEN Keep(ShareSizeBranch(user))
        ELSE Keep(<< >>)

(***************************************************************************)
(* The host callbacks                                                      *)
(***************************************************************************)
StatsKeys == {"files", "dirs", "private_dirs", "shared_size"}

\* the stats mapping: a dict from keys to integers, which may lack keys
MkStats(files, dirs, private_dirs, shared_size) ==
    [files |-> files, dirs |-> dirs, private_dirs |-> private_dirs,
     shared_size |-> shared_size]

\* the mapping without one key
Without(stats, key) == [k \in DOMAIN stats \ {key} |-> stats[k]]

\* stats.get(key) is None
IsNone(stats, key) == key \notin DOMAIN stats

\* a variant without the early return: every upload request probes
AlreadyProbedNever(user) == FALSE

\* a variant that returns early only while the user awaits statistics
AlreadyProbedAwaiting(user) == Entry(probed_downloaders, user) = "downloader"

\* "user already dealt with": the early return of upload_queued_notification
AlreadyProbed(user) == user \in DOMAIN probed_downloaders

\* a variant that analyses the statistics of every user
IsDownloaderAlways(user) == TRUE

\* "if the user is a downloader": the guard of the call of check_downloader
IsDownloader(user) == user \in DOMAIN probed_downloaders

\* no locals that matter
NoLocals == [locked_percent |-> << >>, divided |-> FALSE]

\* a variant that takes a user without folders for fully locked
LockedPercentFull(private_folders, folders) ==
    IF folders # 0
    THEN [locked_percent |-> << calculate_percentage(private_folders, folders) >>,
          divided |-> TRUE]
    ELSE [locked_percent |-> << 100 >>, divided |-> FALSE]

\* "prevent any division by zero error": locked_percent of user_stats_notification
LockedPercent(private_folders, folders) ==
    IF folders # 0
    THEN [locked_percent |-> << calculate_percentage(private_folders, folders) >>,
          divided |-> TRUE]
    ELSE [locked_percent |-> << 0 >>, divided |-> FALSE]

\* a variant that records the user without browsing its shares
UploadQueuedNotificationNoProbe(user) ==
    IF AlreadyProbed(user)
    THEN [table |-> probed_downloaders, calls |-> << >>, raised |-> "",
          locals |-> NoLocals]
    ELSE [table |-> DictSet(probed_downloaders, user, "downloader"),
          calls |-> << Log(user, "User %s requested an upload - browsing shares...") >>,
          raised |-> "", locals |-> NoLocals]

\* upload_queued_notification: the table it leaves and the calls it makes
UploadQueuedNotification(user) ==
    IF AlreadyProbed(user)
    THEN [table |-> probed_downloaders, calls |-> << >>, raised |-> "",
          locals |-> NoLocals]
    ELSE [table |-> DictSet(probed_downloaders, user, "downloader"),
          calls |-> << Call("browse_user", user, ""),
                       Log(user, "User %s requested an upload - browsing shares...") >>,
          raised |-> "", locals |-> NoLocals]

\* a variant that reads a missing private_dirs as 0: stats.get("private_dirs", 0)
UserStatsNotificationDefaulting(user, stats) ==
    IF \E k \in StatsKeys \ {"private_dirs"} : IsNone(stats, k)
    THEN [table |-> probed_downloaders, calls |-> << >>, raised |-> "TypeError",
          locals |-> NoLocals]
    ELSE LET files == stats.files
             folders == stats.dirs
             private_folders == IF IsNone(stats, "private_dirs") THEN 0
                                ELSE stats.private_dirs
             total_shared == stats.shared_size
             percent == LockedPercent(private_folders, folders)
             locked_percent == percent.locked_percent[1]
             shown == << Log(user, "User %s shares %s files %s folders with %s private. %s percent of %s is locked") >>
         IN  IF IsDownloader(user)
             THEN LET r == CheckDownloader(user, files, folders, private_folders,
                                           locked_percent, total_shared)
                  IN  [table |-> r.table, calls |-> shown \o r.calls, raised |-> "",
                       locals |-> percent]
             ELSE [table |-> probed_downloaders, calls |-> shown, raised |-> "",
                   locals |-> percent]

\* user_stats_notification: the table it leaves, the calls it makes and how it ends
UserStatsNotification(user, stats) ==
    IF IsNone(stats, "private_dirs")
    THEN [table |-> probed_downloaders, calls |-> << >>, raised |-> "",
          locals |-> NoLocals]
    ELSE IF \E k \in StatsKeys : IsNone(stats, k)
    THEN \* int(None)
         [table |-> probed_downloaders, calls |-> << >>, raised |-> "TypeError",
          locals |-> NoLocals]
    ELSE LET files == stats.files
             folders == stats.dirs
             private_folders == stats.private_dirs
             total_shared == stats.shared_size
             percent == LockedPercent(private_folders, folders)
             locked_percent == percent.locked_percent[1]
             shown == << Log(user, "User %s shares %s files %s folders with %s private. %s percent of %s is locked") >>
         IN  IF IsDownloader(user)
             THEN LET r == CheckDownloader(user, files, folders, private_folders,
                                           locked_percent, total_shared)
                  IN  [table |-> r.table, calls |-> shown \o r.calls, raised |-> "",
                       locals |-> percent]
             ELSE [table |-> probed_downloaders, calls |-> shown, raised |-> "",
                   locals |-> percent]

\* a variant that puts the default text into every template, set or not
LoadedNotificationOverwrites(s) ==
    LET AtLeast(value, minimum) == IF value < minimum THEN minimum ELSE value
    IN  [s EXCEPT !.no_files_message = DefaultMessage("no_files"),
                  !.all_privates_message = DefaultMessage("all_privates"),
                  !.empty_folders_message = DefaultMessage("empty_folders"),
                  !.num_files_message = DefaultMessage("num_files"),
                  !.num_folders_message = DefaultMessage("num_folders"),
                  !.percent_threshold_message = DefaultMessage("percent_threshold"),
                  !.share_size_message = DefaultMessage("share_size"),
                  !.num_files = AtLeast(s.num_files, Metasettings.num_files.minimum),
                  !.num_folders = AtLeast(s.num_folders, Metasettings.num_folders.minimum),
                  !.percent_threshold =
                      AtLeast(s.percent_threshold, Metasettings.percent_threshold.minimum),
                  !.share_size = AtLeast(s.share_size, Metasettings.share_size.minimum)]

\* loaded_notification: the settings it leaves
LoadedNotification(s) ==
    LET min_num_files == Metasettings.num_files.minimum
        min_num_folders == Metasettings.num_folders.minimum
        percent_allowed == Metasettings.percent_threshold.minimum
        share_size == Metasettings.share_size.minimum
        Filled(rule) == IF MessageOf(s, rule) = "" THEN DefaultMessage(rule)
                        ELSE MessageOf(s, rule)
        AtLeast(value, minimum) == IF value < minimum THEN minimum ELSE value
    IN  [s EXCEPT !.no_files_message = Filled("no_files"),
                  !.all_privates_message = Filled("all_privates"),
                  !.empty_folders_message = Filled("empty_folders"),
                  !.num_files_message = Filled("num_files"),
                  !.num_folders_message = Filled("num_folders"),
                  !.percent_threshold_message = Filled("percent_threshold"),
                  !.share_size_message = Filled("share_size"),
                  !.num_files = AtLeast(s.num_files, min_num_files),
                  !.num_folders = AtLeast(s.num_folders, min_num_folders),
                  !.percent_threshold = AtLeast(s.percent_threshold, percent_allowed),
                  !.share_size = AtLeast(s.share_size, share_size)]

(***************************************************************************)
(* A session: the plugin is constructed, loaded, and then receives upload  *)
(* requests and statistics for the users, in any order.                    *)
(***************************************************************************)
EmptyDict == [x \in {} |-> "OK"]

NoStats == [k \in {} |-> 0]

\* no notebook, no aliases, and no operation of gtkgui/utils.py so far
GuiEvent(op, page, rest, result) == [op |-> op, page |-> page, rest |-> rest, result |-> result]

GuiIdle ==
    /\ notebook = [pages |-> << >>, current |-> -1]
    /\ tab_labels = EmptyDict
    /\ menu_labels = EmptyDict
    /\ notification_tab_colors = TRUE
    /\ command_aliases = EmptyDict
    /\ gui_ev = GuiEvent("init", "", << >>, "")

\* every toggle of s set to on
WithToggles(s, on) ==
    [s EXCEPT !.no_files_ban = on, !.no_files_pm = on,
              !.all_privates_ban = on, !.all_privates_pm = on,
              !.empty_folders_ban = on, !.empty_folders_pm = on,
              !.num_files_ban = on, !.num_files_pm = on,
              !.num_folders_ban = on, !.num_folders_pm = on,
              !.percent_threshold_ban = on, !.percent_threshold_pm = on,
              !.share_size_ban = on, !.share_size_pm = on]

\* stored numeric settings below the declared minimums, and above the declared maximums
BelowMinimums ==
    [DefaultSettings EXCEPT !.num_files = -1, !.num_folders = -1,
                            !.percent_threshold = 0, !.share_size = -1]

AboveMaximums ==
    [DefaultSettings EXCEPT !.percent_threshold = 100, !.share_size = 1001]

\* a stored configuration with every action switched on and a no-shares template
\* the user wrote
CustomTemplate ==
    [WithToggles(DefaultSettings, TRUE) EXCEPT !.no_files_message = "Share something first"]

\* the settings the host hands to a new plugin: the defaults, or a stored
\* configuration with every action switched on, or off, or with numeric settings
\* outside the declared bounds, or with a template of the user's own
SessionConfigs ==
    {DefaultSettings, WithToggles(DefaultSettings, TRUE), WithToggles(DefaultSettings, FALSE),
     BelowMinimums, AboveMaximums, CustomTemplate}

\* the statistics a session delivers, against the default thresholds
\* (10 files, 10 folders, 1 percent locked, 10 MB)
SessionStats ==
    { MkStats(20, 20, 0, 20 * MB),     \* a good sharer
      MkStats(0, 0, 0, 0),             \* no shares
      MkStats(5, 2, 2, 20 * MB),       \* all folders private
      MkStats(0, 3, 0, 0),             \* only empty folders
      MkStats(5, 20, 0, 20 * MB),      \* too few files
      MkStats(20, 20, 0, MB),          \* too little data
      Without(MkStats(20, 20, 0, 20 * MB), "private_dirs"),
      Without(MkStats(20, 20, 0, 20 * MB), "files"),
      MkStats(-1, 20, 0, 20 * MB) }    \* a negative file count

Running == {"loaded", "upload_queued", "user_stats"}

Init ==
    /\ settings \in SessionConfigs
    /\ buddies \in {{}, {"u1"}}
    /\ probed_downloaders = EmptyDict
    /\ ev = [kind |-> "init", user |-> "", stats |-> NoStats, was |-> "absent"]
    /\ calls = << >>
    /\ raised = ""
    /\ nbrowse = [u \in Users |-> 0]
    /\ nban = [u \in Users |-> 0]
    /\ nmsg = [u \in Users |-> 0]
    /\ requested = {}
    /\ locals = NoLocals
    /\ GuiIdle

\* the host calls a callback with result r: its effects on the plugin and the collaborators
Deliver(kind, user, stats, r) ==
    /\ probed_downloaders' = r.table
    /\ calls' = r.calls
    /\ raised' = r.raised
    /\ locals' = r.locals
    /\ nbrowse' = [u \in Users |-> nbrowse[u] + Count(r.calls, "browse_user", u)]
    /\ nban' = [u \in Users |-> nban[u] + Count(r.calls, "ban_user", u)]
    /\ nmsg' = [u \in Users |-> nmsg[u] + Count(r.calls, "send_private", u)]
    /\ ev' = [kind |-> kind, user |-> user, stats |-> stats,
              was |-> Entry(probed_downloaders, user)]
    /\ UNCHANGED <<settings, buddies>>
    /\ UNCHANGED guivars

Loaded ==
    /\ ev.kind = "init"
    /\ settings' = LoadedNotification(settings)
    /\ ev' = [ev EXCEPT !.kind = "loaded"]
    /\ UNCHANGED <<buddies, probed_downloaders, calls, raised, nbrowse, nban, nmsg,
                   requested, locals>>
    /\ UNCHANGED guivars

UploadQueued(user) ==
    /\ ev.kind \in Running
    /\ Deliver("upload_queued", user, NoStats, UploadQueuedNotification(user))
    /\ requested' = requested \cup {user}

UserStats(user, stats) ==
    /\ ev.kind \in Running
    /\ nban[user] < MaxRepeat
    /\ nmsg[user] < MaxRepeat
    /\ Deliver("user_stats", user, stats, UserStatsNotification(user, stats))
    /\ UNCHANGED requested

Next ==
    \/ Loaded
    \/ \E user \in Users : UploadQueued(user)
    \/ \E user \in Users, stats \in SessionStats : UserStats(user, stats)

Spec == Init /\ [][Next]_vars

(***************************************************************************)
(* One evaluation: a user awaiting statistics, any configuration and any   *)
(* statistics snapshot, and the one call of user_stats_notification.       *)
(***************************************************************************)
PercentThresholds == {1, 50}

ShareSizes == {0, 1}

SharedBytes == {0, MB - 1, MB, 2 * MB, GB - 1, GB, GB + GB \div 2}

EvalConfigs ==
    { Configured(d, b, p, m, nfiles, nfolders, percent, size, unit) :
        d \in Rules, b \in BOOLEAN, p \in BOOLEAN, m \in BOOLEAN,
        nfiles \in {0, MaxNum}, nfolders \in {0, MaxNum},
        percent \in PercentThresholds, size \in ShareSizes, unit \in {"MB", "GB"} }

EvalStats ==
    { MkStats(files, dirs, private_dirs, shared_size) :
        files \in 0..MaxCount, dirs \in 0..MaxCount, private_dirs \in 0..MaxCount,
        shared_size \in SharedBytes }

InitEval ==
    /\ settings \in EvalConfigs
    /\ buddies \in {{}, {"u1"}}
    /\ probed_downloaders = DictSet(EmptyDict, "u1", "downloader")
    /\ \E stats \in EvalStats :
          /\ stats.private_dirs <= stats.dirs
          /\ ev = [kind |-> "pending", user |-> "u1", stats |-> stats, was |-> "downloader"]
    /\ calls = << >>
    /\ raised = ""
    /\ nbrowse = [u \in Users |-> IF u = "u1" THEN 1 ELSE 0]
    /\ nban = [u \in Users |-> 0]
    /\ nmsg = [u \in Users |-> 0]
    /\ requested = {"u1"}
    /\ locals = NoLocals
    /\ GuiIdle

Evaluate ==
    /\ ev.kind = "pending"
    /\ Deliver("user_stats", ev.user, ev.stats, UserStatsNotification(ev.user, ev.stats))
    /\ UNCHANGED requested

NextEval == Evaluate

SpecEval == InitEval /\ [][NextEval]_vars

(***************************************************************************)
(* The locked-folder percentage: one call of user_stats_notification with  *)
(* the loaded default settings, for any folder and private-folder counts,  *)
(* private folders beyond the folder count included.                       *)
(***************************************************************************)
\* largest folder count / private-folder count of a snapshot of SpecPercent
MaxDirs == 8

InitPercent ==
    /\ settings = LoadedNotification(DefaultSettings)
    /\ buddies = {}
    /\ probed_downloaders = DictSet(EmptyDict, "u1", "downloader")
    /\ \E files \in {0, 1}, dirs \in 0..MaxDirs, private_dirs \in 0..MaxDirs,
          shared_size \in {0, 20 * MB} :
          ev = [kind |-> "pending", user |-> "u1",
                stats |-> MkStats(files, dirs, private_dirs, shared_size),
                was |-> "downloader"]
    /\ calls = << >>
    /\ raised = ""
    /\ nbrowse = [u \in Users |-> IF u = "u1" THEN 1 ELSE 0]
    /\ nban = [u \in Users |-> 0]
    /\ nmsg = [u \in Users |-> 0]
    /\ requested = {"u1"}
    /\ locals = NoLocals
    /\ GuiIdle

NextPercent == Evaluate

SpecPercent == InitPercent /\ [][NextPercent]_vars

(***************************************************************************)
(* IconNotebook (gtkgui/utils.py): the notifications on the tab labels.    *)
(* A label holds the pixbuf of its highlight image and the colour of its   *)
(* text.  Pixbufs are named by their key in self.images ("None" for no     *)
(* pixbuf), colours by their key in config.sections["ui"].                 *)
(***************************************************************************)
\* largest number of pages of the notebook
MaxPages == 3

Pages == {"page1", "page2", "page3", "page4"}

\* the plugin is constructed and receives no callback
PluginIdle ==
    /\ settings = DefaultSettings
    /\ buddies = {}
    /\ probed_downloaders = EmptyDict
    /\ ev = [kind |-> "init", user |-> "", stats |-> NoStats, was |-> "absent"]
    /\ calls = << >>
    /\ raised = ""
    /\ nbrowse = [u \in Users |-> 0]
    /\ nban = [u \in Users |-> 0]
    /\ nmsg = [u \in Users |-> 0]
    /\ requested = {}
    /\ locals = NoLocals

\* ImageLabel.set_text_color(notify): the colour it gives the text (None is -1)
ImageLabel_set_text_color(notify) ==
    IF notification_tab_colors
    THEN IF notify = 1 THEN "tab_changed"
         ELSE IF notify = 2 THEN "tab_hilite"
         ELSE "tab_default"
    ELSE "tab_default"

\* ImageLabel(label): no highlight pixbuf, text set by set_text_color(notify=None)
ImageLabel == [hilite_pixbuf |-> "None", color |-> ImageLabel_set_text_color(-1)]

\* Gtk.Notebook.get_nth_page(page_num): -1 stands for the last page
get_nth_page(page_num) ==
    IF Len(notebook.pages) = 0 THEN "None"
    ELSE IF page_num = -1 THEN notebook.pages[Len(notebook.pages)]
    ELSE notebook.pages[page_num + 1]

get_current_page == notebook.current

\* Gtk.Notebook.page_num(page)
page_num(page) == (CHOOSE i \in 1..Len(notebook.pages) : notebook.pages[i] = page) - 1

\* a variant in which a normal notification replaces a chat mention
set_hilite_imageNoPriority(labels, page, status) ==
    LET image == IF status > 0
                 THEN << "hilite3", "hilite" >>[status]
                 ELSE "None"
    IN  [tab |-> [labels.tab EXCEPT ![page].hilite_pixbuf = image],
         menu |-> [labels.menu EXCEPT ![page].hilite_pixbuf = image]]

\* IconNotebook.set_hilite_image(page, status) on the labels (tab, menu)
set_hilite_image(labels, page, status) ==
    LET image == IF status > 0
                 THEN << "hilite3", "hilite" >>[status]
                 ELSE "None"
    IN  IF status = 1 /\ labels.tab[page].hilite_pixbuf = "hilite"
        THEN \* Chat mentions have priority over normal notifications
             labels
        ELSE [tab |-> [labels.tab EXCEPT ![page].hilite_pixbuf = image],
              menu |-> [labels.menu EXCEPT ![page].hilite_pixbuf = image]]

\* IconNotebook.set_text_color(page, status): the tab label only
set_text_color(labels, page, status) ==
    [labels EXCEPT !.tab[page].color = ImageLabel_set_text_color(status)]

\* a variant without the early return for the current page
request_hiliteAlways(labels, page) ==
    set_text_color(set_hilite_image(labels, page, 2), page, 2)

\* IconNotebook.request_hilite(page)
request_hilite(labels, page) ==
    LET current == get_nth_page(get_current_page)
    IN  IF current = page THEN labels
        ELSE set_text_color(set_hilite_image(labels, page, 2), page, 2)

\* IconNotebook.request_changed(page)
request_changed(labels, page) ==
    LET current == get_nth_page(get_current_page)
    IN  IF current = page THEN labels
        ELSE set_text_color(set_hilite_image(labels, page, 1), page, 1)

\* IconNotebook.on_switch_page(notebook, new_page, page_num): dismiss tab notification
on_switch_page(labels, new_page) ==
    set_text_color(set_hilite_image(labels, new_page, 0), new_page, 0)

Labels == [tab |-> tab_labels, menu |-> menu_labels]

GuiStep(op, page, labels) ==
    /\ tab_labels' = labels.tab
    /\ menu_labels' = labels.menu
    /\ gui_ev' = GuiEvent(op, page, << >>, "")
    /\ UNCHANGED <<notification_tab_colors, command_aliases>>
    /\ UNCHANGED pluginvars

InitNotebook ==
    /\ PluginIdle
    /\ notebook = [pages |-> << >>, current |-> -1]
    /\ tab_labels = EmptyDict
    /\ menu_labels = EmptyDict
    /\ notification_tab_colors \in BOOLEAN
    /\ command_aliases = EmptyDict
    /\ gui_ev = GuiEvent("init", "", << >>, "")

\* append_page: the page gets a new tab label and a new menu label; the first page
\* of a notebook becomes its current page, which emits switch-page
AppendPage(page) ==
    /\ Len(notebook.pages) < MaxPages
    /\ page \notin DOMAIN tab_labels
    /\ LET added == [tab |-> DictSet(tab_labels, page, ImageLabel),
                     menu |-> DictSet(menu_labels, page, ImageLabel)]
           first == Len(notebook.pages) = 0
       IN  /\ notebook' = [pages |-> Append(notebook.pages, page),
                           current |-> IF first THEN 0 ELSE notebook.current]
           /\ GuiStep("append_page", page,
                      IF first THEN on_switch_page(added, page) ELSE added)

RequestHilite(page) ==
    /\ page \in DOMAIN tab_labels
    /\ GuiStep("request_hilite", page, request_hilite(Labels, page))
    /\ UNCHANGED notebook

RequestChanged(page) ==
    /\ page \in DOMAIN tab_labels
    /\ GuiStep("request_changed", page, request_changed(Labels, page))
    /\ UNCHANGED notebook

\* the user (or set_current_page) switches to another page: the switch-page signal
\* runs on_switch_page, then the notebook makes the page current
SwitchPage(page) ==
    /\ page \in DOMAIN tab_labels
    /\ page # get_nth_page(get_current_page)
    /\ GuiStep("switch_page", page, on_switch_page(Labels, page))
    /\ notebook' = [notebook EXCEPT !.current = page_num(page)]

NextNotebook ==
    \/ \E page \in Pages : AppendPage(page)
    \/ \E page \in Pages : RequestHilite(page)
    \/ \E page \in Pages : RequestChanged(page)
    \/ \E page \in Pages : SwitchPage(page)

SpecNotebook == InitNotebook /\ [][NextNotebook]_vars

(***************************************************************************)
(* Command aliases (gtkgui/utils.py): add_alias and unalias on             *)
(* config.sections["server"]["command_aliases"].  A string is a sequence   *)
(* of symbols: words and the space " "; a name is the string before the    *)
(* first space.                                                            *)
(***************************************************************************)
\* rest.split(" ", 1)
str_split(rest) ==
    LET spaces == {i \in 1..Len(rest) : rest[i] = " "}
    IN  IF spaces = {} THEN << rest >>
        ELSE LET i == CHOOSE i \in spaces : \A j \in spaces : i <= j
             IN  << SubSeq(rest, 1, i - 1), SubSeq(rest, i + 1, Len(rest)) >>

\* del d[k]
DictDel(d, k) == [x \in DOMAIN d \ {k} |-> d[x]]

\* a variant that stores the alias before looking at its name
add_aliasUnchecked(aliases, rest) ==
    IF rest # << >>
    THEN LET args == str_split(rest)
             stored == IF Len(args) = 2 THEN DictSet(aliases, args[1], args[2])
                       ELSE aliases
         IN  IF args[1] \in DOMAIN stored
             THEN [aliases |-> stored, result |-> "Alias %s: %s\n"]
             ELSE [aliases |-> stored, result |-> "No such alias (%s)\n"]
    ELSE [aliases |-> aliases, result |-> "\nAliases:\n"]

\* add_alias(rest): the table it leaves and the text it returns
add_alias(aliases, rest) ==
    IF rest # << >>
    THEN LET args == str_split(rest)
         IN  IF Len(args) = 2 /\ args[1] \in {<< "alias" >>, << "unalias" >>}
             THEN [aliases |-> aliases, result |-> "I will not alias that!\n"]
             ELSE LET stored == IF Len(args) = 2
                                THEN DictSet(aliases, args[1], args[2])
                                ELSE aliases
                  IN  IF args[1] \in DOMAIN stored
                      THEN [aliases |-> stored, result |-> "Alias %s: %s\n"]
                      ELSE [aliases |-> stored, result |-> "No such alias (%s)\n"]
    ELSE [aliases |-> aliases, result |-> "\nAliases:\n"]

\* unalias(rest): the table it leaves and the text it returns
unalias(aliases, rest) ==
    IF rest # << >> /\ rest \in DOMAIN aliases
    THEN [aliases |-> DictDel(aliases, rest), result |-> "Removed alias %(alias)s: %(action)s\n"]
    ELSE [aliases |-> aliases, result |-> "No such alias (%(alias)s)\n"]

\* the command lines a session types after /alias and /unalias
AliasRests ==
    { << >>,                              \* list the aliases
      << "ls" >>,                         \* show one alias
      << "ls", " ", "x" >>,               \* define ls
      << "ls", " ", "alias" >>,           \* a definition that is a reserved word
      << "ls", " " >>,                    \* an empty definition
      << "alias" >>, << "unalias" >>,     \* reserved names without a definition
      << "alias", " ", "x" >>,            \* reserved names with a definition
      << "unalias", " ", "x" >>,
      << "alias", " ", " ", "x" >>,       \* two spaces
      << " ", "alias" >>,                 \* a leading space: the empty name
      << "alias", "ls", " ", "x" >> }     \* the name "aliasls"

AliasStep(op, rest, r) ==
    /\ command_aliases' = r.aliases
    /\ gui_ev' = GuiEvent(op, "", rest, r.result)
    /\ UNCHANGED <<notebook, tab_labels, menu_labels, notification_tab_colors>>
    /\ UNCHANGED pluginvars

InitAlias ==
    /\ PluginIdle
    /\ notebook = [pages |-> << >>, current |-> -1]
    /\ tab_labels = EmptyDict
    /\ menu_labels = EmptyDict
    /\ notification_tab_colors = TRUE
    /\ command_aliases \in {EmptyDict, DictSet(EmptyDict, << "ls" >>, << "x" >>)}
    /\ gui_ev = GuiEvent("init", "", << >>, "")

AddAlias(rest) == AliasStep("add_alias", rest, add_alias(command_aliases, rest))

Unalias(rest) == AliasStep("unalias", rest, unalias(command_aliases, rest))

NextAlias ==
    \/ \E rest \in AliasRests : AddAlias(rest)
    \/ \E rest \in AliasRests : Unalias(rest)

SpecAlias == InitAlias /\ [][NextAlias]_vars

(***************************************************************************)
(* What the last callback did, and what the rule table of the              *)
(* specification asks for                                                  *)
(***************************************************************************)
\* the last callback was user_stats_notification and it reached check_downloader
Evaluated ==
    /\ ev.kind = "user_stats"
    /\ ev.was # "absent"
    /\ DOMAIN ev.stats = StatsKeys

Bans == Count(calls, "ban_user", ev.user)

Messages == Count(calls, "send_private", ev.user)

MessageTexts == {calls[i].arg : i \in {j \in 1..Len(calls) : calls[j].op = "send_private"}}

\* the rules whose branch of check_downloader the last callback entered
FiredRules == {r \in Rules : \E i \in 1..Len(calls) : calls[i] = Log(ev.user, BranchLog(r))}

\* bytes of one unit of settings["share_size_unit"]
UnitBytes(s) == IF s.share_size_unit = "GB" THEN GB ELSE MB

\* the rule table of the specification: the lowest-ordered rule whose predicate holds
CanonicalRule(stats, s) ==
    LET locked_percent == IF stats.dirs > 0
                          THEN calculate_percentage(stats.private_dirs, stats.dirs)
                          ELSE 0
    IN  IF stats.files = 0 /\ stats.dirs = 0 THEN "no_files"
        ELSE IF stats.files > 0 /\ stats.dirs = stats.private_dirs THEN "all_privates"
        ELSE IF stats.files = 0 /\ stats.dirs > 0 THEN "empty_folders"
        ELSE IF stats.files < s.num_files THEN "num_files"
        ELSE IF stats.dirs < s.num_folders THEN "num_folders"
        ELSE IF locked_percent > s.percent_threshold THEN "percent_threshold"
        ELSE IF stats.shared_size < s.share_size * UnitBytes(s) THEN "share_size"
        ELSE "none"

\* the ban and the message the action of a rule consists of under settings s
RuleBans(s, rule) == rule \in Rules /\ BanOf(s, rule)

RuleTexts(s, rule) ==
    IF rule \in Rules /\ PmOf(s, rule) /\ MessageOf(s, rule) # ""
    THEN {"[Auto-Message] " \o MessageOf(s, rule)}
    ELSE {}

(***************************************************************************)
(* Claims                                                                  *)
(***************************************************************************)

\* C1: in every evaluation the action that executes (ban and/or notice) is the
\* action of the lowest-ordered rule of the canonical table whose predicate holds,
\* and no action executes when no predicate holds.  (Stated for peers that are
\* not buddies; buddies are the subject of C2.)
C1_CanonicalRuleDecides ==
    (Evaluated /\ ev.user \notin buddies) =>
        LET rule == CanonicalRule(ev.stats, settings)
        IN  /\ (Bans > 0) = RuleBans(settings, rule)
            /\ MessageTexts = RuleTexts(settings, rule)

\* C2: a peer on the buddy list is marked OK whatever its statistics are, and is
\* neither banned nor messaged.
C2_BuddySkipsRules ==
    (Evaluated /\ ev.user \in buddies) =>
        /\ Entry(probed_downloaders, ev.user) = "OK"
        /\ Bans = 0
        /\ Messages = 0

\* C3: over any sequence of events each peer is banned at most once and messaged
\* at most once.
C3_BannedAndMessagedOnce ==
    \A u \in Users : nban[u] <= 1 /\ nmsg[u] <= 1

\* C4: a statistics event for a peer already evaluated as OK is not evaluated
\* again: the peer stays OK and is neither banned nor messaged.
C4_OkIsFinal ==
    (ev.kind = "user_stats" /\ ev.was = "OK") =>
        /\ Entry(probed_downloaders, ev.user) = "OK"
        /\ Bans = 0
        /\ Messages = 0

\* C5: an evaluation of a peer awaiting statistics leaves the peer in a terminal
\* state: its entry is no longer "downloader", and it is "OK" exactly when no
\* rule failed.
C5_EvaluationIsTerminal ==
    (Evaluated /\ ev.was = "downloader") =>
        /\ Entry(probed_downloaders, ev.user) # "downloader"
        /\ (Entry(probed_downloaders, ev.user) = "OK") = (FiredRules = {})

\* C6: over any sequence of events the share probe (browse_user) is requested
\* at most once per peer, and exactly once for each peer that requested an upload.
C6_ProbedExactlyOnce ==
    \A u \in Users :
        /\ nbrowse[u] <= 1
        /\ (u \in requested) = (nbrowse[u] = 1)

\* a peer that was probed once requested an upload again, after its statistics
\* had been evaluated
C6_Witness ==
    /\ ev.kind = "upload_queued"
    /\ ev.was = "OK"
    /\ nbrowse[ev.user] = 1
    /\ \E u \in Users : u \notin requested

\* C7: upload_queued_notification for a peer that already has an entry in the
\* table changes nothing: the table is the same (an OK entry stays OK) and no
\* probe, ban or message is issued.
C7_RepeatedRequestIsNoOp ==
    [][\A u \in Users :
          (u \in DOMAIN probed_downloaders /\ ev'.kind = "upload_queued" /\ ev'.user = u)
          => /\ probed_downloaders' = probed_downloaders
             /\ calls' = << >>
             /\ nbrowse' = nbrowse /\ nban' = nban /\ nmsg' = nmsg]_vars

\* an upload request arrived for a peer whose entry was OK, and for one awaiting
C7_Witness ==
    /\ ev.kind = "upload_queued"
    /\ ev.was = "OK"
    /\ probed_downloaders[ev.user] = "OK"
    /\ \E u \in Users : Entry(probed_downloaders, u) = "downloader"

\* C8: a statistics event for a peer without an entry in the table is ignored:
\* no ban, no message, no probe, no tab closed, and no entry is created.
C8_UnknownPeerIgnored ==
    [][\A u \in Users :
          (u \notin DOMAIN probed_downloaders /\ ev'.kind = "user_stats" /\ ev'.user = u)
          => /\ probed_downloaders' = probed_downloaders
             /\ \A i \in 1..Len(calls') : calls'[i].op = "log"
             /\ nbrowse' = nbrowse /\ nban' = nban /\ nmsg' = nmsg]_vars

\* statistics without shares arrived for a peer that never requested an upload,
\* under settings that ban and message for it
C8_Witness ==
    /\ ev.kind = "user_stats"
    /\ ev.was = "absent"
    /\ DOMAIN ev.stats = StatsKeys
    /\ ev.stats.files = 0 /\ ev.stats.dirs = 0
    /\ settings.no_files_ban /\ settings.no_files_pm /\ settings.no_files_message # ""
    /\ ev.user \notin DOMAIN probed_downloaders

\* C9: in one evaluation at most one rule's action fires: at most one ban and at
\* most one message, and the ban toggle and the message template used belong to
\* one and the same rule.
C9_OneRulePerEvaluation ==
    Evaluated =>
        /\ Cardinality(FiredRules) <= 1
        /\ Bans <= 1
        /\ Messages <= 1
        /\ \E r \in Rules :
              /\ Bans > 0 => BanOf(settings, r)
              /\ Messages > 0 => (PmOf(settings, r) /\ MessageTexts = RuleTexts(settings, r))

\* an evaluation in which the empty-folders rule both banned and messaged
C9_Witness ==
    /\ Evaluated
    /\ FiredRules = {"empty_folders"}
    /\ Bans = 1
    /\ Messages = 1

\* C10 as stated: no single evaluation both bans the peer and sends it a message.
C10_AtMostOneOfBanOrMessage ==
    Evaluated => ~(Bans > 0 /\ Messages > 0)

\* C10 as amended: an evaluation bans and messages the peer in the same call
\* exactly when the rule that failed has its ban toggle and its notify toggle
\* enabled and a non-empty template; otherwise it does at most one of the two.
C10_BothExactlyWhenBothEnabled ==
    Evaluated =>
        ((Bans > 0 /\ Messages > 0)
            = (\E r \in FiredRules :
                  BanOf(settings, r) /\ PmOf(settings, r) /\ MessageOf(settings, r) # ""))

\* an evaluation in which the no-shares rule, with both toggles enabled, banned and
\* then messaged the peer
C10_Witness ==
    /\ Evaluated
    /\ FiredRules = {"no_files"}
    /\ settings.no_files_ban /\ settings.no_files_pm
    /\ Bans = 1
    /\ Messages = 1

\* C11: statistics that fail no rule of the table (values equal to their
\* thresholds included) make the peer OK, and no ban or message is issued.
C11_PassingStatsAreOk ==
    (Evaluated /\ CanonicalRule(ev.stats, settings) = "none") =>
        /\ Entry(probed_downloaders, ev.user) = "OK"
        /\ Bans = 0
        /\ Messages = 0

C13_NoSharesAlwaysRuleOne ==
    (Evaluated /\ ev.stats.files = 0 /\ ev.stats.dirs = 0) =>
        /\ FiredRules = {"no_files"}
        /\ Entry(probed_downloaders, ev.user) # "OK"
        /\ (Bans > 0) = RuleBans(settings, "no_files")
        /\ MessageTexts = RuleTexts(settings, "no_files")

\* C14: with file_count > 0 and folder_count = private_folder_count the
\* all-folders-private rule fires whatever the thresholds are: its settings alone
\* decide the ban and the message, and the peer is not marked OK.
C14_AllPrivateAlwaysRuleTwo ==
    (Evaluated /\ ev.stats.files > 0 /\ ev.stats.dirs = ev.stats.private_dirs) =>
        /\ FiredRules = {"all_privates"}
        /\ Entry(probed_downloaders, ev.user) # "OK"
        /\ (Bans > 0) = RuleBans(settings, "all_privates")
        /\ MessageTexts = RuleTexts(settings, "all_privates")

\* C15: statistics that match none of rules 1-6 and whose shared_bytes is below
\* share_size x 2^20 (MB) or share_size x 2^30 (GB) make the share-size rule fire,
\* and only its action executes.
C15_BelowMinimumBytesRuleSeven ==
    (Evaluated /\ CanonicalRule(ev.stats, settings) = "share_size") =>
        /\ FiredRules = {"share_size"}
        /\ (Bans > 0) = RuleBans(settings, "share_size")
        /\ MessageTexts = RuleTexts(settings, "share_size")

\* C16: the below-file-threshold branch executes only when file_count is strictly
\* less than min_files.
C16_FileRuleOnlyBelowMinimum ==
    (Evaluated /\ "num_files" \in FiredRules) => ev.stats.files < settings.num_files

\* C17: the too-many-private-folders branch executes exactly when rules 1-5 of the
\* table do not match and locked_percent > max_locked_percent.
C17_PercentRuleExactly ==
    Evaluated =>
        ("percent_threshold" \in FiredRules)
            = (CanonicalRule(ev.stats, settings) = "percent_threshold")

\* C18: when a rule fails, the peer is banned iff that rule's own ban toggle is on,
\* and messaged iff that rule's own notify toggle is on and its template is not
\* empty, with that template; the settings of the other rules have no effect.
C18_OwnTogglesDecide ==
    Evaluated =>
        \A r \in FiredRules :
            /\ (Bans > 0) = BanOf(settings, r)
            /\ MessageTexts = RuleTexts(settings, r)
            /\ Messages = Cardinality(RuleTexts(settings, r))

\* the folder rule failed with its ban on and its notify off, while every other
\* rule has its ban off and its notify on
C18_Witness ==
    /\ Evaluated
    /\ FiredRules = {"num_folders"}
    /\ settings.num_folders_ban /\ ~settings.num_folders_pm
    /\ ~settings.num_files_ban /\ settings.num_files_pm
    /\ Bans = 1
    /\ Messages = 0

\* C19: when the failing rule has messaging on but an empty template, no message
\* is sent, the warning is logged, and the ban is issued exactly as the rule's ban
\* toggle says.
C19_EmptyTemplateWarns ==
    Evaluated =>
        \A r \in FiredRules :
            (PmOf(settings, r) /\ MessageOf(settings, r) = "") =>
                /\ Messages = 0
                /\ Cardinality({i \in 1..Len(calls) :
                                   calls[i] = Log(ev.user, WarningLog(r))}) = 1
                /\ Bans = (IF BanOf(settings, r) THEN 1 ELSE 0)

\* the share-size rule failed with ban and notify on and an empty template: the
\* peer was banned and the warning logged
C19_Witness ==
    /\ Evaluated
    /\ FiredRules = {"share_size"}
    /\ settings.share_size_ban /\ settings.share_size_pm
    /\ settings.share_size_message = ""
    /\ Bans = 1
    /\ Messages = 0

\* C20: after loaded_notification every numeric threshold lies within the bounds
\* metasettings declares for it.
C20_ThresholdsWithinBounds ==
    ev.kind \in Running =>
        /\ settings.num_files >= Metasettings.num_files.minimum
        /\ settings.num_folders >= Metasettings.num_folders.minimum
        /\ settings.percent_threshold >= Metasettings.percent_threshold.minimum
        /\ settings.percent_threshold <= Metasettings.percent_threshold.maximum
        /\ settings.share_size >= Metasettings.share_size.minimum
        /\ settings.share_size <= Metasettings.share_size.maximum

\* a statistics payload that carries private_dirs but lacks another field or
\* carries a negative count
Malformed(stats) ==
    /\ ~IsNone(stats, "private_dirs")
    /\ \/ DOMAIN stats # StatsKeys
       \/ \E k \in DOMAIN stats : stats[k] < 0

\* C21: a malformed statistics payload (private_dirs present, and files, dirs or
\* shared_size missing or a count negative) makes user_stats_notification return
\* normally, with no ban, no message and the per-peer table unchanged.
C21_MalformedStatsHarmless ==
    (ev.kind = "user_stats" /\ Malformed(ev.stats)) =>
        /\ raised = ""
        /\ Bans = 0
        /\ Messages = 0
        /\ Entry(probed_downloaders, ev.user) = ev.was

\* C22: a peer that was banned or messaged has requested an upload and was
\* probed before; statistics for a peer that has not requested an upload lead to no
\* ban, no message and no table entry, and the upload request itself never bans or
\* messages.
C22_ActionOnlyAfterRequestAndProbe ==
    /\ \A u \in Users :
          (nban[u] > 0 \/ nmsg[u] > 0) => (u \in requested /\ nbrowse[u] > 0)
    /\ (ev.kind = "user_stats" /\ ev.user \notin requested) =>
          /\ Bans = 0
          /\ Messages = 0
          /\ ev.user \notin DOMAIN probed_downloaders
    /\ ev.kind = "upload_queued" => (Bans = 0 /\ Messages = 0)

\* statistics without shares arrived for a peer that never requested an upload,
\* under a configuration that bans for them: nothing was done to the peer
C22_Witness ==
    /\ ev.kind = "user_stats"
    /\ ev.user \notin requested
    /\ DOMAIN ev.stats = StatsKeys
    /\ ev.stats.files = 0 /\ ev.stats.dirs = 0
    /\ settings.no_files_ban
    /\ nban[ev.user] = 0 /\ nmsg[ev.user] = 0
    /\ calls # << >>

\* C23: a statistics payload without private_dirs triggers nothing: no call of a
\* collaborator (no ban, no message, no tab closing, no log line), no exception and
\* no change of the per-peer table; a peer awaiting statistics keeps awaiting.
C23_NoPrivateDirsIgnored ==
    (ev.kind = "user_stats" /\ IsNone(ev.stats, "private_dirs")) =>
        /\ calls = << >>
        /\ raised = ""
        /\ Entry(probed_downloaders, ev.user) = ev.was

\* a payload without private_dirs arrived for a peer awaiting statistics, which
\* still awaits them
C23_Witness ==
    /\ ev.kind = "user_stats"
    /\ IsNone(ev.stats, "private_dirs")
    /\ ev.was = "downloader"
    /\ Entry(probed_downloaders, ev.user) = "downloader"

\* positions of the calls of collaborator op in the calls of the last callback
Positions(op) == {i \in 1..Len(calls) : calls[i].op = op}

\* C24: in an evaluation that both bans and messages, the ban is issued before
\* the message is sent, whichever of the seven rules failed; with both toggles on
\* and a template set, the failing rule does both.
C24_BanBeforeMessage ==
    Evaluated =>
        /\ \A i \in Positions("ban_user"), j \in Positions("send_private") : i < j
        /\ \A r \in FiredRules :
              (BanOf(settings, r) /\ PmOf(settings, r) /\ MessageOf(settings, r) # "") =>
                  (Positions("ban_user") # {} /\ Positions("send_private") # {})

\* the folder-count rule failed with ban and notify on: the ban came first
C24_Witness ==
    /\ Evaluated
    /\ FiredRules = {"num_folders"}
    /\ Bans = 1
    /\ Messages = 1
    /\ \E i \in Positions("ban_user") : \E j \in Positions("send_private") : i < j

\* C25: loaded_notification replaces every empty template by its default text and
\* leaves a non-empty one unchanged; afterwards all seven templates are non-empty,
\* a second loaded_notification would change no setting, and a failing rule whose
\* notify toggle is on sends its message.
C25_TemplatesFilledAtLoad ==
    [][ /\ (ev.kind = "init" /\ ev'.kind = "loaded") =>
             \A r \in Rules :
                 MessageOf(settings', r) = IF MessageOf(settings, r) = ""
                                           THEN DefaultMessage(r)
                                           ELSE MessageOf(settings, r)
        /\ ev'.kind \in Running =>
             /\ \A r \in Rules : MessageOf(settings', r) # ""
             /\ LoadedNotification(settings') = settings'
        /\ (ev'.kind = "user_stats" /\ ev'.was # "absent" /\ DOMAIN ev'.stats = StatsKeys) =>
             \A r \in Rules :
                 ((\E i \in 1..Len(calls') : calls'[i] = Log(ev'.user, BranchLog(r)))
                    /\ PmOf(settings', r)) =>
                     \E i \in 1..Len(calls') :
                         calls'[i] = Call("send_private", ev'.user,
                                          "[Auto-Message] " \o MessageOf(settings', r))
      ]_vars

\* after load the template the user wrote is still in place next to six default
\* texts, and the no-shares rule sent it
C25_Witness ==
    /\ Evaluated
    /\ settings.no_files_message = "Share something first"
    /\ settings.share_size_message = DefaultMessage("share_size")
    /\ FiredRules = {"no_files"}
    /\ MessageTexts = {"[Auto-Message] Share something first"}

\* C26: the browse tab is closed (remove_user, once) in exactly the evaluations in
\* which the no-shares, all-private or empty-folders branch runs, whatever the
\* toggles are; never when the peer is marked OK or a threshold branch runs.
C26_TabClosedForRulesOneToThree ==
    Evaluated =>
        /\ Count(calls, "remove_user", ev.user)
             = (IF FiredRules \cap {"no_files", "all_privates", "empty_folders"} # {}
                THEN 1 ELSE 0)
        /\ Positions("remove_user") \subseteq {i \in 1..Len(calls) : calls[i].user = ev.user}
        /\ (FiredRules \cap {"num_files", "num_folders", "percent_threshold", "share_size"} # {})
             => Positions("remove_user") = {}
        /\ (Entry(probed_downloaders, ev.user) = "OK" /\ ev.was = "downloader")
             => Positions("remove_user") = {}

\* the all-private branch ran with ban and notify off and closed the tab
C26_Witness ==
    /\ Evaluated
    /\ FiredRules = {"all_privates"}
    /\ ~settings.all_privates_ban /\ ~settings.all_privates_pm
    /\ Bans = 0 /\ Messages = 0
    /\ Count(calls, "remove_user", ev.user) = 1

\* the notification level a highlight pixbuf, and a text colour, stand for
ImageLevel(pixbuf) ==
    IF pixbuf = "hilite" THEN 2 ELSE IF pixbuf = "hilite3" THEN 1 ELSE 0

ColorLevel(color) ==
    IF color = "tab_hilite" THEN 2 ELSE IF color = "tab_changed" THEN 1 ELSE 0

\* C27: a page whose tab carries the mention image keeps it through every
\* operation but a switch to that page; in particular request_changed on the page
\* leaves the mention image on the tab label and on the menu label.
C27_MentionOutlivesChanged ==
    [][ \A page \in DOMAIN tab_labels :
          tab_labels[page].hilite_pixbuf = "hilite" =>
              \/ /\ tab_labels'[page].hilite_pixbuf = "hilite"
                 /\ menu_labels'[page].hilite_pixbuf = "hilite"
              \/ /\ gui_ev'.op = "switch_page"
                 /\ gui_ev'.page = page
                 /\ tab_labels'[page].hilite_pixbuf = "None"
      ]_vars

\* request_changed was called on a page that is not current and carries the
\* mention image, which is still there
C27_Witness ==
    /\ gui_ev.op = "request_changed"
    /\ gui_ev.page # get_nth_page(get_current_page)
    /\ tab_labels[gui_ev.page].hilite_pixbuf = "hilite"

\* C28: the current page carries no notification: its tab label has no highlight
\* image and the default text colour after every operation; request_hilite and
\* request_changed on the current page change no label.
C28_CurrentPageCarriesNoNotification ==
    [][ /\ Len(notebook'.pages) > 0 =>
             LET current == notebook'.pages[notebook'.current + 1]
             IN  /\ tab_labels'[current].hilite_pixbuf = "None"
                 /\ menu_labels'[current].hilite_pixbuf = "None"
                 /\ tab_labels'[current].color = "tab_default"
        /\ (/\ gui_ev'.op \in {"request_hilite", "request_changed"}
            /\ Len(notebook.pages) > 0
            /\ gui_ev'.page = notebook.pages[notebook.current + 1]) =>
             (tab_labels' = tab_labels /\ menu_labels' = menu_labels)
      ]_vars

\* the current page was notified of a mention after it had been switched to from
\* a highlighted state elsewhere: it shows nothing while another page is highlighted
C28_Witness ==
    /\ gui_ev.op = "request_hilite"
    /\ gui_ev.page = get_nth_page(get_current_page)
    /\ tab_labels[gui_ev.page].hilite_pixbuf = "None"
    /\ \E other \in DOMAIN tab_labels : tab_labels[other].hilite_pixbuf = "hilite"

\* C29: with tab colours enabled, for every page the level of the tab's highlight
\* image (none / changed / mention) equals the level of the tab's text colour.
C29_ImageLevelIsColorLevel ==
    notification_tab_colors =>
        \A page \in DOMAIN tab_labels :
            ImageLevel(tab_labels[page].hilite_pixbuf) = ColorLevel(tab_labels[page].color)

\* C30: no sequence of add_alias and unalias calls creates an alias named
\* "alias" or "unalias": add_alias with such a name followed by a space returns
\* the refusal and leaves the table unchanged, and unalias of a name that is not
\* in the table leaves the table unchanged.
C30_ReservedNamesNeverAliased ==
    [][ /\ << "alias" >> \notin DOMAIN command_aliases'
        /\ << "unalias" >> \notin DOMAIN command_aliases'
        /\ (/\ gui_ev'.op = "add_alias"
            /\ Len(gui_ev'.rest) >= 2
            /\ gui_ev'.rest[1] \in {"alias", "unalias"}
            /\ gui_ev'.rest[2] = " ") =>
             /\ gui_ev'.result = "I will not alias that!\n"
             /\ command_aliases' = command_aliases
        /\ (gui_ev'.op = "unalias" /\ gui_ev'.rest \notin DOMAIN command_aliases) =>
             command_aliases' = command_aliases
      ]_vars

\* add_alias refused the name unalias while the table held other aliases
C30_Witness ==
    /\ gui_ev.op = "add_alias"
    /\ gui_ev.rest = << "unalias", " ", "x" >>
    /\ gui_ev.result = "I will not alias that!\n"
    /\ << "ls" >> \in DOMAIN command_aliases
    /\ << "alias", "ls" >> \in DOMAIN command_aliases

====
